---- MODULE Spec2Model ----
(***************************************************************************)
(* Model of the guardrail dispatcher of                                    *)
(* Apply_Guardrail_with_Streaming_and_Long_Context.ipynb:                  *)
(*   apply_guardrail            (the Unit Evaluator),                      *)
(*   apply_guardrail_full_text  (the Batch Chunker, via textwrap.wrap),    *)
(*   stream_conversation        (the Stream Dispatcher).                   *)
(*                                                                         *)
(* A text is a sequence of one-character strings.  The response of the     *)
(* external ApplyGuardrail service is an input of every evaluation: it is  *)
(* drawn with \E from a bounded set of well-formed responses.  A Python    *)
(* dict is a function whose DOMAIN is the set of keys it holds, so that    *)
(* `'k' in d` is `"k" \in DOMAIN d`.                                        *)
(***************************************************************************)
EXTENDS Integers, Sequences, FiniteSets, TLC

VARIABLES
    pc,                 \* position of the running routine
    text,               \* argument `text` of apply_guardrail(_full_text)
    response,           \* `response` / `guardrail_response`: the last service response
    is_blocked,         \* local `is_blocked`
    alternate_text,     \* local `alternate_text` / `alt_text`
    filtered_text,      \* local `filtered_text` of apply_guardrail_full_text
    chunks,             \* windows of wrap(text, ...) not yet iterated
    i,                  \* number of loop iterations of apply_guardrail_full_text so far
    full_text,          \* local `full_text` of stream_conversation
    buffer_text,        \* local `buffer_text` of stream_conversation
    applied_guardrails, \* local `applied_guardrails` of stream_conversation
    result,             \* the triple apply_guardrail_full_text returns
    stream,             \* the token stream: phase, characters and events delivered so far
    calls,              \* log of the calls of apply_guardrail: content, cause and result
    errors,             \* log of the exceptions raised: cause, content and error code
    limit_text_unit,    \* the configured LIMIT_TEXT_UNIT (units per request)
    instances           \* the locals of two calls of stream_conversation in progress

vars == <<pc, text, response, is_blocked, alternate_text, filtered_text, chunks, i,
          full_text, buffer_text, applied_guardrails, result, stream, calls, errors,
          limit_text_unit, instances>>

(***************************************************************************)
(* Sizes.  TEXT_UNIT and LIMIT_TEXT_UNIT are the notebook's configuration  *)
(* (1000 characters, 25 units), scaled down so that texts over the limits  *)
(* can be enumerated; the code uses them only in length comparisons.       *)
(* The chunker is examined under the small limit and under the notebook's  *)
(* 25 units as well.                                                       *)
(***************************************************************************)
TEXT_UNIT == 2

LIMIT_TEXT_UNIT == 1

\* LIMIT_TEXT_UNIT as the notebook sets it.
NOTEBOOK_LIMIT_TEXT_UNIT == 25

MaxOver == 3

MaxDeltaLen == 3

\* A sequence of at most n elements of S.
SeqUpTo(S, n) == UNION {[1..k -> S] : k \in 0..n}

RECURSIVE Sum(_)
Sum(s) == IF s = <<>> THEN 0 ELSE Head(s) + Sum(Tail(s))

RECURSIVE Concat(_)
\* ''.join(s) for a sequence of texts
Concat(s) == IF s = <<>> THEN <<>> ELSE Head(s) \o Concat(Tail(s))

RECURSIVE JoinSpace(_)
\* ' '.join(s) for a sequence of texts
JoinSpace(s) ==
    IF s = <<>> THEN <<>>
    ELSE IF Len(s) = 1 THEN Head(s)
    ELSE Head(s) \o <<" ">> \o JoinSpace(Tail(s))

(***************************************************************************)
(* The Unit Evaluator.                                                     *)
(***************************************************************************)
\* Mutant of check_severe_violations: every violation counts, whatever its action.
check_severe_violations_all(violations) == Len(violations)

\* sum([violation['action']=='BLOCKED' for violation in violations])
check_severe_violations(violations) ==
    Cardinality({k \in DOMAIN violations : violations[k]["action"] = "BLOCKED"})

\* The list `blocked` that one assessment contributes.
AssessmentBlocked(assessment) ==
    (IF "topicPolicy" \in DOMAIN assessment
        THEN <<check_severe_violations(assessment["topicPolicy"]["topics"])>>
        ELSE <<>>)
    \o (IF "wordPolicy" \in DOMAIN assessment
        THEN (IF "customWords" \in DOMAIN assessment["wordPolicy"]
                THEN <<check_severe_violations(assessment["wordPolicy"]["customWords"])>>
                ELSE <<>>)
             \o (IF "managedWordLists" \in DOMAIN assessment["wordPolicy"]
                THEN <<check_severe_violations(assessment["wordPolicy"]["managedWordLists"])>>
                ELSE <<>>)
        ELSE <<>>)
    \o (IF "sensitiveInformationPolicy" \in DOMAIN assessment
        THEN (IF "piiEntities" \in DOMAIN assessment["sensitiveInformationPolicy"]
                THEN <<check_severe_violations(
                          assessment["sensitiveInformationPolicy"]["piiEntities"])>>
                ELSE <<>>)
             \o (IF "regexes" \in DOMAIN assessment["sensitiveInformationPolicy"]
                THEN <<check_severe_violations(
                          assessment["sensitiveInformationPolicy"]["regexes"])>>
                ELSE <<>>)
        ELSE <<>>)
    \o (IF "contentPolicy" \in DOMAIN assessment
        THEN <<check_severe_violations(assessment["contentPolicy"]["filters"])>>
        ELSE <<>>)

RECURSIVE BlockedList(_)
\* The list `blocked` after the loop over the assessments.
BlockedList(assessments) ==
    IF assessments = <<>> THEN <<>>
    ELSE AssessmentBlocked(Head(assessments)) \o BlockedList(Tail(assessments))

is_policy_assessement_blocked(assessments) == Sum(BlockedList(assessments)) > 0

\* [output['text'] for output in response['outputs']]
OutputTexts(outputs) == [k \in DOMAIN outputs |-> outputs[k]["text"]]

\* Mutant of apply_guardrail: the joined outputs are returned without
\* intervention too.
apply_guardrail_outputs(txt, resp) ==
    <<resp["action"] = "GUARDRAIL_INTERVENED"
        /\ is_policy_assessement_blocked(resp["assessments"]),
      JoinSpace(OutputTexts(resp["outputs"])),
      resp>>

\* Mutant of apply_guardrail: an intervention that does not block returns the
\* text as it was submitted.
apply_guardrail_unmasked(txt, resp) ==
    IF resp["action"] = "GUARDRAIL_INTERVENED"
         /\ is_policy_assessement_blocked(resp["assessments"])
    THEN <<TRUE, JoinSpace(OutputTexts(resp["outputs"])), resp>>
    ELSE <<FALSE, txt, resp>>

\* apply_guardrail(text, ...) when the service answers `resp`:
\* the triple (is_blocked, alternate_text, response).
apply_guardrail(txt, resp) ==
    IF resp["action"] = "GUARDRAIL_INTERVENED"
    THEN <<is_policy_assessement_blocked(resp["assessments"]),
           JoinSpace(OutputTexts(resp["outputs"])),
           resp>>
    ELSE <<FALSE, txt, resp>>

(***************************************************************************)
(* Responses of the ApplyGuardrail service (section EXTERNAL INTERFACES:   *)
(* action, outputs, assessments keyed by policy name, findings with an     *)
(* action of BLOCKED or NONE).                                             *)
(***************************************************************************)
Blocking == [action |-> "BLOCKED"]

NonBlocking == [action |-> "NONE"]

\* The finding lists of one sub-policy.
Violations == {<<>>, <<NonBlocking>>, <<NonBlocking, Blocking>>}

\* The dicts that hold any subset of `keys`, each with a finding list.
OptDict(keys) == UNION {[S -> Violations] : S \in SUBSET keys}

TopicPart == {<<>>} \cup {[topicPolicy |-> [topics |-> v]] : v \in Violations}

WordPart ==
    {<<>>} \cup {[wordPolicy |-> d] : d \in OptDict({"customWords", "managedWordLists"})}

SensitivePart ==
    {<<>>} \cup {[sensitiveInformationPolicy |-> d] : d \in OptDict({"piiEntities", "regexes"})}

ContentPart == {<<>>} \cup {[contentPolicy |-> [filters |-> v]] : v \in Violations}

\* Every assessment dict over the four policies.
Assessments ==
    {t @@ w @@ s @@ c : t \in TopicPart, w \in WordPart, s \in SensitivePart, c \in ContentPart}

\* Assessments that hold exactly one sub-policy with one finding.
SingleAssessments ==
    UNION {{[topicPolicy |-> [topics |-> <<f>>]],
            [wordPolicy |-> [customWords |-> <<f>>]],
            [wordPolicy |-> [managedWordLists |-> <<f>>]],
            [sensitiveInformationPolicy |-> [piiEntities |-> <<f>>]],
            [sensitiveInformationPolicy |-> [regexes |-> <<f>>]],
            [contentPolicy |-> [filters |-> <<f>>]]} : f \in {Blocking, NonBlocking}}

AssessmentLists ==
    {<<>>} \cup {<<a>> : a \in Assessments}
           \cup {<<a, b>> : a \in SingleAssessments, b \in SingleAssessments}

Masked == <<"#">>

Refusal == <<"!">>

OutputLists == {<<>>, <<[text |-> Masked]>>, <<[text |-> Masked], [text |-> Refusal]>>}

\* The responses the Unit Evaluator is examined on.
Responses ==
    {[action |-> "NONE", outputs |-> o, assessments |-> <<>>] : o \in OutputLists}
    \cup {[action |-> "GUARDRAIL_INTERVENED", outputs |-> o, assessments |-> a] :
            o \in OutputLists, a \in AssessmentLists}

\* The three outcomes of an evaluation of `content` that the chunker and the
\* dispatcher are examined on: no intervention, a non-blocking remediation
\* (the content, masked) and a blocking finding (a refusal message).
RespNone == [action |-> "NONE", outputs |-> <<>>, assessments |-> <<>>]

RespMasked(content) ==
    [action |-> "GUARDRAIL_INTERVENED",
     outputs |-> <<[text |-> Masked \o content]>>,
     assessments |-> <<[sensitiveInformationPolicy |-> [piiEntities |-> <<NonBlocking>>]]>>]

RespBlocked ==
    [action |-> "GUARDRAIL_INTERVENED",
     outputs |-> <<[text |-> Refusal]>>,
     assessments |-> <<[topicPolicy |-> [topics |-> <<Blocking>>]]>>]

Outcomes(content) == {RespNone, RespMasked(content), RespBlocked}

\* The number of text units apply_guardrail prints for a text of n characters,
\* and the usage report for the full text: (len(text)//TEXT_UNIT)+1.
text_units(n) == (n \div TEXT_UNIT) + 1

\* One entry of the log of apply_guardrail calls.
Call(why, content, resp) ==
    [why |-> why, content |-> content, response |-> resp,
     text_units |-> text_units(Len(content)),
     is_blocked |-> apply_guardrail(content, resp)[1],
     alternate_text |-> apply_guardrail(content, resp)[2]]

\* The value of `result` while nothing is returned.
NoResult == <<FALSE, <<>>, RespNone>>

\* The token stream before its first event.
NoStream == [phase |-> "none", sent |-> 0, events |-> 0]

\* The locals of a call of stream_conversation when its loop begins:
\* full_text = "", buffer_text = "", applied_guardrails = [].
NewLocals ==
    [pc |-> "stream_conversation", full_text |-> <<>>, buffer_text |-> <<>>,
     applied_guardrails |-> <<>>, stream |-> NoStream, calls |-> <<>>]

\* The two calls whose steps are interleaved.
PairIds == {1, 2}

NoInstances == [k \in PairIds |-> NewLocals]

(***************************************************************************)
(* textwrap.wrap(text, width) with its defaults (replace_whitespace,       *)
(* drop_whitespace, break_long_words), on texts of letters, blanks and     *)
(* newlines: without a tab expand_tabs changes nothing, and without a      *)
(* hyphen wordsep_re splits a text into its maximal runs of whitespace and *)
(* of non-whitespace.                                                      *)
(***************************************************************************)
Whitespace == {" ", "\n"}

Chars == {"a", " ", "\n"}

\* TextWrapper._munge_whitespace: every whitespace character becomes a blank.
munge_whitespace(t) == [k \in DOMAIN t |-> IF t[k] \in Whitespace THEN " " ELSE t[k]]

\* chunk.strip() == ''
IsBlank(chunk) == \A k \in DOMAIN chunk : chunk[k] \in Whitespace

RECURSIVE RunLen(_)
\* Length of the maximal leading run of t (whitespace or non-whitespace).
RunLen(t) ==
    IF Len(t) <= 1 THEN Len(t)
    ELSE IF (t[1] \in Whitespace) = (t[2] \in Whitespace) THEN 1 + RunLen(Tail(t))
    ELSE 1

RECURSIVE split(_)
\* TextWrapper._split: the chunks of t, in order.
split(t) ==
    IF t = <<>> THEN <<>>
    ELSE <<SubSeq(t, 1, RunLen(t))>> \o split(SubSeq(t, RunLen(t) + 1, Len(t)))

\* sum(map(len, cur_line))
LineLen(cur_line) == Sum([k \in DOMAIN cur_line |-> Len(cur_line[k])])

RECURSIVE Fill(_, _, _)
\* The inner `while chunks:` of _wrap_chunks: <<cur_line, chunks left>>.
Fill(chs, cur_line, width) ==
    IF chs # <<>> /\ LineLen(cur_line) + Len(Head(chs)) <= width
    THEN Fill(Tail(chs), Append(cur_line, Head(chs)), width)
    ELSE <<cur_line, chs>>

\* Mutant of handle_long_word: break_long_words off, a long word is kept whole
\* on a line of its own.
handle_long_word_whole(chs, cur_line, cur_len, width) ==
    IF cur_line = <<>> THEN <<Append(cur_line, Head(chs)), Tail(chs)>>
    ELSE <<cur_line, chs>>

\* TextWrapper._handle_long_word with break_long_words: <<cur_line, chunks left>>.
handle_long_word(chs, cur_line, cur_len, width) ==
    LET space_left == IF width < 1 THEN 1 ELSE width - cur_len
        chunk == Head(chs)
    IN <<Append(cur_line, SubSeq(chunk, 1, space_left)),
         <<SubSeq(chunk, space_left + 1, Len(chunk))>> \o Tail(chs)>>

RECURSIVE wrap_chunks(_, _, _)
\* TextWrapper._wrap_chunks: one pass of the outer `while chunks:` per call.
wrap_chunks(chs, lines, width) ==
    IF chs = <<>> THEN lines
    ELSE
      LET start == IF IsBlank(Head(chs)) /\ lines # <<>> THEN Tail(chs) ELSE chs
          filled == Fill(start, <<>>, width)
          broken == IF filled[2] # <<>> /\ Len(Head(filled[2])) > width
                    THEN handle_long_word(filled[2], filled[1], LineLen(filled[1]), width)
                    ELSE filled
          cur == broken[1]
          cur_line == IF cur # <<>> /\ IsBlank(cur[Len(cur)])
                      THEN SubSeq(cur, 1, Len(cur) - 1)
                      ELSE cur
      IN wrap_chunks(broken[2],
                     IF cur_line # <<>> THEN Append(lines, Concat(cur_line)) ELSE lines,
                     width)

\* textwrap.wrap(text, width)
wrap(t, width) == wrap_chunks(split(munge_whitespace(t)), <<>>, width)

(***************************************************************************)
(* SpecEval: one call of apply_guardrail on a text and a service response. *)
(***************************************************************************)
EvalTexts == {<<>>, <<"a", " ", "b">>}

InitEval ==
    /\ pc = "apply_guardrail"
    /\ text \in EvalTexts
    /\ response = RespNone
    /\ is_blocked = FALSE
    /\ alternate_text = <<>>
    /\ filtered_text = <<>>
    /\ chunks = <<>>
    /\ i = 0
    /\ full_text = <<>>
    /\ buffer_text = <<>>
    /\ applied_guardrails = <<>>
    /\ result = NoResult
    /\ stream = NoStream
    /\ calls = <<>>
    /\ errors = <<>>
    /\ instances = NoInstances
    /\ limit_text_unit = LIMIT_TEXT_UNIT

\* apply_guardrail(text, ...): the service answers resp.
ApplyGuardrail ==
    /\ pc = "apply_guardrail"
    /\ \E resp \in Responses :
         /\ is_blocked' = apply_guardrail(text, resp)[1]
         /\ alternate_text' = apply_guardrail(text, resp)[2]
         /\ response' = apply_guardrail(text, resp)[3]
         /\ calls' = Append(calls, Call("direct", text, resp))
    /\ pc' = "evaluated"
    /\ UNCHANGED <<instances, limit_text_unit, errors,
                   text, filtered_text, chunks, i, full_text, buffer_text,
                   applied_guardrails, result, stream>>

\* A second apply_guardrail(text, ...) on the same text.
ApplyGuardrailAgain ==
    /\ pc = "evaluated"
    /\ \E resp \in Outcomes(text) :
         /\ is_blocked' = apply_guardrail(text, resp)[1]
         /\ alternate_text' = apply_guardrail(text, resp)[2]
         /\ response' = apply_guardrail(text, resp)[3]
         /\ calls' = Append(calls, Call("direct", text, resp))
    /\ pc' = "evaluated twice"
    /\ UNCHANGED <<instances, limit_text_unit, errors,
                   text, filtered_text, chunks, i, full_text, buffer_text,
                   applied_guardrails, result, stream>>

NextEval == ApplyGuardrail \/ ApplyGuardrailAgain

SpecEval == InitEval /\ [][NextEval]_vars

(***************************************************************************)
(* SpecBatch: apply_guardrail_full_text on a text of at most MaxOver       *)
(* characters over the limit.  One step per evaluation call.               *)
(***************************************************************************)
\* Mutant of LimitLength: the limit is one text unit, whatever the quota.
LimitLength_unit == TEXT_UNIT

\* LIMIT_TEXT_UNIT*TEXT_UNIT: the longest text of one request, which is also the
\* width the longer texts are wrapped to.
LimitLength == limit_text_unit * TEXT_UNIT

\* Mutant of WithinLimit: a text of exactly the limit is chunked.
WithinLimit_strict(text_length) == text_length < limit_text_unit * TEXT_UNIT

\* text_length <= LIMIT_TEXT_UNIT*TEXT_UNIT
WithinLimit(text_length) == text_length <= LimitLength

\* Mutant of NextFilteredText: a blocked chunk's text is appended.
NextFilteredText_appends(filtered, blocked, alt) == filtered \o alt

\* Mutant of NextFilteredText: an unblocked chunk's text replaces the earlier ones.
NextFilteredText_overwrites(filtered, blocked, alt) == alt

\* `filtered_text` after the loop body: replaced when the chunk is blocked,
\* extended by the alternate text when it is not.
NextFilteredText(filtered, blocked, alt) == IF blocked THEN alt ELSE filtered \o alt

\* The texts examined: letters and blanks, with at most one newline.
BatchTexts ==
    {t \in SeqUpTo(Chars, LIMIT_TEXT_UNIT * TEXT_UNIT + MaxOver) :
        Cardinality({k \in DOMAIN t : t[k] = "\n"}) <= 1}

InitBatch ==
    /\ pc = "apply_guardrail_full_text"
    /\ text \in BatchTexts
    /\ response = RespNone
    /\ is_blocked = FALSE
    /\ alternate_text = <<>>
    /\ filtered_text = <<>>
    /\ chunks = <<>>
    /\ i = 0
    /\ full_text = <<>>
    /\ buffer_text = <<>>
    /\ applied_guardrails = <<>>
    /\ result = NoResult
    /\ stream = NoStream
    /\ calls = <<>>
    /\ errors = <<>>
    /\ instances = NoInstances
    /\ limit_text_unit \in {LIMIT_TEXT_UNIT, NOTEBOOK_LIMIT_TEXT_UNIT}

\* The text is within the limit: return apply_guardrail(text, ...).
FullTextDirect ==
    /\ pc = "apply_guardrail_full_text"
    /\ WithinLimit(Len(text))
    /\ \E resp \in Outcomes(text) :
         /\ result' = apply_guardrail(text, resp)
         /\ calls' = Append(calls, Call("direct", text, resp))
    /\ pc' = "returned"
    /\ UNCHANGED <<instances, limit_text_unit, errors,
                   text, response, is_blocked, alternate_text, filtered_text, chunks, i,
                   full_text, buffer_text, applied_guardrails, stream>>

\* The text is over the limit: wrap it.  Without a chunk the loop body never
\* runs and `return is_blocked, ...` reads a local that was never bound.
FullTextWrap ==
    /\ pc = "apply_guardrail_full_text"
    /\ ~WithinLimit(Len(text))
    /\ chunks' = wrap(text, LimitLength)
    /\ pc' = IF chunks' = <<>> THEN "UnboundLocalError" ELSE "for chunk"
    /\ UNCHANGED <<instances, limit_text_unit, errors,
                   text, response, is_blocked, alternate_text, filtered_text, i,
                   full_text, buffer_text, applied_guardrails, result, stream, calls>>

\* One pass of the loop body on the next chunk; `break` on a blocked chunk and
\* the end of the chunks both lead to the return.
FullTextChunk ==
    /\ pc = "for chunk"
    /\ chunks # <<>>
    /\ \E resp \in Outcomes(Head(chunks)) :
         LET r == apply_guardrail(Head(chunks), resp) IN
         /\ is_blocked' = r[1]
         /\ alternate_text' = r[2]
         /\ response' = r[3]
         /\ filtered_text' = NextFilteredText(filtered_text, r[1], r[2])
         /\ calls' = Append(calls, Call("chunk", Head(chunks), resp))
    /\ chunks' = Tail(chunks)
    /\ i' = i + 1
    /\ IF is_blocked' \/ chunks' = <<>>
       THEN pc' = "returned" /\ result' = <<is_blocked', filtered_text', response'>>
       ELSE pc' = "for chunk" /\ UNCHANGED result
    /\ UNCHANGED <<instances, limit_text_unit, errors,
                   text, full_text, buffer_text, applied_guardrails, stream>>

NextBatch == FullTextDirect \/ FullTextWrap \/ FullTextChunk

SpecBatch == InitBatch /\ [][NextBatch]_vars

(***************************************************************************)
(* SpecStream: stream_conversation on a converse_stream of one messageStart,*)
(* contentBlockDelta events, one messageStop and one metadata event.  The  *)
(* dispatcher looks at the lengths of the deltas only, so the stream's     *)
(* k-th character is taken to be the k-th letter of Alphabet: a lost, a    *)
(* repeated or a displaced character shows.  One step per event.           *)
(***************************************************************************)
Alphabet == <<"a", "b", "c", "d", "e", "f", "g", "h", "i", "j", "k", "l", "m",
              "n", "o", "p", "q", "r", "s", "t", "u", "v", "w", "x", "y", "z">>

MaxStreamLen == 2 * TEXT_UNIT + MaxOver

MaxDeltas == MaxStreamLen + 1

\* The stop reasons of the model's own messageStop event.
StopReasons == {"end_turn", "max_tokens"}

\* The concatenation of the deltas delivered so far.
Consumed == SubSeq(Alphabet, 1, stream.sent)

\* Mutant of Exceeds: a buffer of exactly one unit is flushed.
Exceeds_atleast(buffer, new_text) == Len(buffer \o new_text) >= TEXT_UNIT

\* len(buffer_text + new_text) > TEXT_UNIT
Exceeds(buffer, new_text) == Len(buffer \o new_text) > TEXT_UNIT

\* Mutant of BlockedStopReason: the stop reason in the spelling of converse_stream.
BlockedStopReason_lowercase(guardrail_response) == "guardrail_intervened"

\* 'stopReason' of the messageStop that a blocked flush writes into the event.
BlockedStopReason(guardrail_response) == guardrail_response["action"]

\* Mutant of Accumulated: the delta takes the place of the buffer.
Accumulated_replaces(buffer, new_text) == new_text

\* `buffer_text` after a delta that fits: buffer_text += new_text.
Accumulated(buffer, new_text) == buffer \o new_text

\* Mutant of FlushedBuffer: the evaluated characters stay in the buffer.
FlushedBuffer_keeps(buffer, new_text) == buffer \o new_text

\* `buffer_text` after a threshold evaluation: buffer_text = new_text.
FlushedBuffer(buffer, new_text) == new_text

\* Mutant of FlushedFullText: a blocked flush's text is appended.
FlushedFullText_appends(full, blocked, alt) == full \o alt

\* `full_text` after a flush: replaced when blocked, extended when not.
FlushedFullText(full, blocked, alt) == IF blocked THEN alt ELSE full \o alt

\* Mutant of MessageStopEffect: the messageStop ends the turn without an
\* evaluation of the buffer.
MessageStopEffect_unevaluated(stopReason, buf, guardrails, log, cur, resp) ==
    [break |-> stopReason = "GUARDRAIL_INTERVENED", triple |-> cur,
     guardrails |-> guardrails, calls |-> log]

\* `if 'messageStop' in event:` for an event that holds a messageStop, where
\* cur is the triple (is_blocked, alt_text, guardrail_response) before it and
\* resp the service's answer to the evaluation of the buffer:
\* whether the loop breaks, the triple, applied_guardrails and the call log.
MessageStopEffect(stopReason, buf, guardrails, log, cur, resp) ==
    IF stopReason = "GUARDRAIL_INTERVENED"
    THEN [break |-> TRUE, triple |-> cur, guardrails |-> guardrails, calls |-> log]
    ELSE [break |-> FALSE,
          triple |-> apply_guardrail(buf, resp),
          guardrails |-> IF apply_guardrail(buf, resp)[1]
                         THEN Append(guardrails, apply_guardrail(buf, resp)[3])
                         ELSE guardrails,
          calls |-> Append(log, Call("end", buf, resp))]

InitStream ==
    /\ pc = "stream_conversation"
    /\ text = <<>>
    /\ response = RespNone
    /\ is_blocked = FALSE
    /\ alternate_text = <<>>
    /\ filtered_text = <<>>
    /\ chunks = <<>>
    /\ i = 0
    /\ full_text = <<>>
    /\ buffer_text = <<>>
    /\ applied_guardrails = <<>>
    /\ result = NoResult
    /\ stream = NoStream
    /\ calls = <<>>
    /\ errors = <<>>
    /\ instances = NoInstances
    /\ limit_text_unit = LIMIT_TEXT_UNIT

\* The deltas the stream may deliver next.
NextDeltas ==
    {SubSeq(Alphabet, stream.sent + 1, stream.sent + n) :
        n \in {m \in 0..MaxDeltaLen : stream.sent + m <= MaxStreamLen}}

\* event = {'messageStart': ...}
MessageStart ==
    /\ pc = "stream_conversation"
    /\ stream.phase = "none"
    /\ stream' = [stream EXCEPT !.phase = "content"]
    /\ UNCHANGED <<instances, limit_text_unit, errors,
                   pc, text, response, is_blocked, alternate_text, filtered_text, chunks, i,
                   full_text, buffer_text, applied_guardrails, result, calls>>

\* event = {'contentBlockDelta': ...} that fits the buffer.
DeltaAccumulate ==
    /\ pc = "stream_conversation"
    /\ stream.phase = "content"
    /\ stream.events < MaxDeltas
    /\ \E new_text \in NextDeltas :
         /\ ~Exceeds(buffer_text, new_text)
         /\ buffer_text' = Accumulated(buffer_text, new_text)
         /\ stream' = [stream EXCEPT !.sent = @ + Len(new_text), !.events = @ + 1]
    /\ UNCHANGED <<instances, limit_text_unit, errors,
                   pc, text, response, is_blocked, alternate_text, filtered_text, chunks, i,
                   full_text, applied_guardrails, result, calls>>

\* event = {'contentBlockDelta': ...} that crosses the threshold: the buffer is
\* evaluated; a blocked evaluation adds a messageStop to the event, which the
\* same pass of the loop then handles.
DeltaFlush ==
    /\ pc = "stream_conversation"
    /\ stream.phase = "content"
    /\ stream.events < MaxDeltas
    /\ \E new_text \in NextDeltas :
         /\ Exceeds(buffer_text, new_text)
         /\ stream' = [stream EXCEPT !.sent = @ + Len(new_text), !.events = @ + 1]
         /\ buffer_text' = FlushedBuffer(buffer_text, new_text)
         /\ \E resp \in Outcomes(buffer_text), resp2 \in Outcomes(new_text) :
              LET r == apply_guardrail(buffer_text, resp)
                  guardrails == Append(applied_guardrails, r[3])
                  log == Append(calls, Call("threshold", buffer_text, resp))
                  stop == MessageStopEffect(BlockedStopReason(r[3]),
                                            FlushedBuffer(buffer_text, new_text),
                                            guardrails, log, r, resp2)
              IN /\ full_text' = FlushedFullText(full_text, r[1], r[2])
                 /\ IF r[1]
                    THEN /\ is_blocked' = stop.triple[1]
                         /\ alternate_text' = stop.triple[2]
                         /\ response' = stop.triple[3]
                         /\ applied_guardrails' = stop.guardrails
                         /\ calls' = stop.calls
                         /\ pc' = IF stop.break THEN "returned" ELSE pc
                    ELSE /\ is_blocked' = r[1]
                         /\ alternate_text' = r[2]
                         /\ response' = r[3]
                         /\ applied_guardrails' = guardrails
                         /\ calls' = log
                         /\ pc' = pc
    /\ UNCHANGED <<instances, limit_text_unit, errors,
                   text, filtered_text, chunks, i, result>>

\* event = {'messageStop': {'stopReason': ...}} of the model.
MessageStop ==
    /\ pc = "stream_conversation"
    /\ stream.phase = "content"
    /\ stream' = [stream EXCEPT !.phase = "stopped"]
    /\ \E stopReason \in StopReasons, resp \in Outcomes(buffer_text) :
         LET stop == MessageStopEffect(stopReason, buffer_text, applied_guardrails, calls,
                                       <<is_blocked, alternate_text, response>>, resp)
         IN /\ is_blocked' = stop.triple[1]
            /\ alternate_text' = stop.triple[2]
            /\ response' = stop.triple[3]
            /\ applied_guardrails' = stop.guardrails
            /\ calls' = stop.calls
            /\ pc' = IF stop.break THEN "returned" ELSE pc
    /\ UNCHANGED <<instances, limit_text_unit, errors,
                   text, filtered_text, chunks, i, full_text, buffer_text, result>>

\* event = {'metadata': ...}: usage and latency are printed.
Metadata ==
    /\ pc = "stream_conversation"
    /\ stream.phase = "stopped"
    /\ stream' = [stream EXCEPT !.phase = "metadata"]
    /\ UNCHANGED <<instances, limit_text_unit, errors,
                   pc, text, response, is_blocked, alternate_text, filtered_text, chunks, i,
                   full_text, buffer_text, applied_guardrails, result, calls>>

\* The stream is exhausted: return full_text, applied_guardrails.
StreamEnd ==
    /\ pc = "stream_conversation"
    /\ stream.phase \in {"stopped", "metadata"}
    /\ pc' = "returned"
    /\ UNCHANGED <<instances, limit_text_unit, errors,
                   text, response, is_blocked, alternate_text, filtered_text, chunks, i,
                   full_text, buffer_text, applied_guardrails, result, stream, calls>>


\* The error codes of the botocore ClientError the service calls raise.
ClientErrors == {"ThrottlingException", "InternalServerException"}

\* An entry of the log of exceptions: the cause, the content under evaluation,
\* the error code and the number of evaluations made before it.
Raised(why, content, code) ==
    [why |-> why, content |-> content, error |-> code, at |-> Len(calls)]

\* Mutant of AfterClientError: a throttled evaluation is attempted again.
AfterClientError_retry(code) ==
    IF code = "ThrottlingException" THEN "stream_conversation" ELSE "ClientError"

\* Where control goes when a service call raises ClientError inside
\* stream_conversation: nothing there catches it, whatever its code, so it
\* leaves the function and reaches the except clause of generate.
AfterClientError(code) == "ClientError"

\* apply_guardrail raises ClientError in the evaluation a threshold crossing
\* triggers; the assignments that follow the call are not executed.
FlushFails ==
    /\ pc = "stream_conversation"
    /\ stream.phase = "content"
    /\ stream.events < MaxDeltas
    /\ \E new_text \in NextDeltas, code \in ClientErrors :
         /\ Exceeds(buffer_text, new_text)
         /\ errors' = Append(errors, Raised("threshold", buffer_text, code))
         /\ pc' = AfterClientError(code)
    /\ UNCHANGED <<instances, limit_text_unit, text, response, is_blocked, alternate_text,
                   filtered_text, chunks, i, full_text, buffer_text, applied_guardrails,
                   result, stream, calls>>

\* apply_guardrail raises ClientError in the evaluation at the model's
\* messageStop.
StopFails ==
    /\ pc = "stream_conversation"
    /\ stream.phase = "content"
    /\ \E code \in ClientErrors :
         /\ errors' = Append(errors, Raised("end", buffer_text, code))
         /\ pc' = AfterClientError(code)
    /\ UNCHANGED <<instances, limit_text_unit, text, response, is_blocked, alternate_text,
                   filtered_text, chunks, i, full_text, buffer_text, applied_guardrails,
                   result, stream, calls>>

\* converse_stream or the iteration of its event stream raises ClientError.
StreamFails ==
    /\ pc = "stream_conversation"
    /\ stream.phase \in {"none", "content", "stopped"}
    /\ \E code \in ClientErrors :
         /\ errors' = Append(errors, Raised("stream", <<>>, code))
         /\ pc' = AfterClientError(code)
    /\ UNCHANGED <<instances, limit_text_unit, text, response, is_blocked, alternate_text,
                   filtered_text, chunks, i, full_text, buffer_text, applied_guardrails,
                   result, stream, calls>>

\* A contentBlockDelta whose delta has no 'text':
\* event['contentBlockDelta']['delta']['text'] raises KeyError, which is not a
\* ClientError and leaves generate uncaught.
DeltaMalformed ==
    /\ pc = "stream_conversation"
    /\ stream.phase = "content"
    /\ stream.events < MaxDeltas
    /\ errors' = Append(errors, Raised("event", <<>>, "KeyError"))
    /\ pc' = "KeyError"
    /\ UNCHANGED <<instances, limit_text_unit, text, response, is_blocked, alternate_text,
                   filtered_text, chunks, i, full_text, buffer_text, applied_guardrails,
                   result, stream, calls>>

\* generate: `except ClientError` prints the message, and the `return
\* full_text, applied_guardrails` after the try statement reads two names the
\* failed assignment never bound.
GenerateExcept ==
    /\ pc = "ClientError"
    /\ pc' = "UnboundLocalError"
    /\ UNCHANGED <<instances, limit_text_unit, errors, text, response, is_blocked, alternate_text,
                   filtered_text, chunks, i, full_text, buffer_text, applied_guardrails,
                   result, stream, calls>>

NextStream ==
    \/ MessageStart \/ DeltaAccumulate \/ DeltaFlush \/ MessageStop \/ Metadata \/ StreamEnd
    \/ FlushFails \/ StopFails \/ StreamFails \/ DeltaMalformed \/ GenerateExcept

SpecStream == InitStream /\ [][NextStream]_vars


(***************************************************************************)
(* SpecPair: two calls of stream_conversation, each on its own stream, with *)
(* their loop passes interleaved.  Every name the function assigns is a    *)
(* local of the call; the module-level names it reads (TEXT_UNIT, MODEL_ID,*)
(* guardrail_id, guardrail_version, bedrock_runtime) are never assigned.   *)
(* The second stream is spelled in capitals.                               *)
(***************************************************************************)
Capitals == <<"A", "B", "C", "D", "E", "F", "G", "H", "I", "J", "K", "L", "M",
              "N", "O", "P", "Q", "R", "S", "T", "U", "V", "W", "X", "Y", "Z">>

\* The characters of the stream of call k.
Letters(k) == IF k = 1 THEN Alphabet ELSE Capitals

MaxPairLen == TEXT_UNIT + 1

\* Mutant of LocalsOf: buffer_text is one module-level name, held by call 1.
LocalsOf_global(k) == [instances[k] EXCEPT !.buffer_text = instances[1].buffer_text]

\* The frame of call k: its own full_text, buffer_text and applied_guardrails.
LocalsOf(k) == instances[k]

\* The events the stream of call k can deliver next, given the call's locals;
\* resp is the service's answer should the event lead to an evaluation.
Events(k, l) ==
    IF l.pc # "stream_conversation" THEN {}
    ELSE IF l.stream.phase = "none"
    THEN {[kind |-> "messageStart", text |-> <<>>, stopReason |-> "", resp |-> RespNone]}
    ELSE IF l.stream.phase = "content"
    THEN {[kind |-> "contentBlockDelta",
           text |-> SubSeq(Letters(k), l.stream.sent + 1, l.stream.sent + n),
           stopReason |-> "", resp |-> resp] :
             n \in {m \in 1..MaxDeltaLen : l.stream.sent + m <= MaxPairLen},
             resp \in Outcomes(l.buffer_text)}
         \cup {[kind |-> "messageStop", text |-> <<>>, stopReason |-> stopReason,
                resp |-> resp] :
                  stopReason \in StopReasons, resp \in Outcomes(l.buffer_text)}
    ELSE IF l.stream.phase = "stopped"
    THEN {[kind |-> "metadata", text |-> <<>>, stopReason |-> "", resp |-> RespNone],
          [kind |-> "exhausted", text |-> <<>>, stopReason |-> "", resp |-> RespNone]}
    ELSE {[kind |-> "exhausted", text |-> <<>>, stopReason |-> "", resp |-> RespNone]}

\* One pass of `for event in stream:` on the locals l (the return, when the
\* stream is exhausted).
Dispatch(l, event) ==
    IF event.kind = "messageStart" THEN [l EXCEPT !.stream.phase = "content"]
    ELSE IF event.kind = "contentBlockDelta"
    THEN LET new_text == event.text
             sent == [l.stream EXCEPT !.sent = @ + Len(new_text), !.events = @ + 1]
             r == apply_guardrail(l.buffer_text, event.resp)
             guardrails == Append(l.applied_guardrails, r[3])
             log == Append(l.calls, Call("threshold", l.buffer_text, event.resp))
             stop == MessageStopEffect(BlockedStopReason(r[3]),
                                       FlushedBuffer(l.buffer_text, new_text),
                                       guardrails, log, r, RespNone)
         IN IF ~Exceeds(l.buffer_text, new_text)
            THEN [l EXCEPT !.buffer_text = Accumulated(@, new_text), !.stream = sent]
            ELSE [pc |-> IF r[1] /\ stop.break THEN "returned" ELSE l.pc,
                  full_text |-> FlushedFullText(l.full_text, r[1], r[2]),
                  buffer_text |-> FlushedBuffer(l.buffer_text, new_text),
                  applied_guardrails |-> IF r[1] THEN stop.guardrails ELSE guardrails,
                  stream |-> sent,
                  calls |-> IF r[1] THEN stop.calls ELSE log]
    ELSE IF event.kind = "messageStop"
    THEN LET stop == MessageStopEffect(event.stopReason, l.buffer_text,
                                       l.applied_guardrails, l.calls,
                                       <<FALSE, <<>>, RespNone>>, event.resp)
         IN [l EXCEPT !.stream.phase = "stopped",
                      !.applied_guardrails = stop.guardrails,
                      !.calls = stop.calls,
                      !.pc = IF stop.break THEN "returned" ELSE @]
    ELSE IF event.kind = "metadata" THEN [l EXCEPT !.stream.phase = "metadata"]
    ELSE [l EXCEPT !.pc = "returned"]

InitPair ==
    /\ pc = "stream_conversation, twice"
    /\ text = <<>>
    /\ response = RespNone
    /\ is_blocked = FALSE
    /\ alternate_text = <<>>
    /\ filtered_text = <<>>
    /\ chunks = <<>>
    /\ i = 0
    /\ full_text = <<>>
    /\ buffer_text = <<>>
    /\ applied_guardrails = <<>>
    /\ result = NoResult
    /\ stream = NoStream
    /\ calls = <<>>
    /\ errors = <<>>
    /\ instances = NoInstances
    /\ limit_text_unit = LIMIT_TEXT_UNIT

\* Call k makes its next loop pass, on an event of the given kind.
Pass(k, kind) ==
    /\ pc = "stream_conversation, twice"
    /\ \E event \in Events(k, LocalsOf(k)) :
         /\ event.kind = kind
         /\ instances' = [instances EXCEPT ![k] = Dispatch(LocalsOf(k), event)]
    /\ UNCHANGED <<pc, text, response, is_blocked, alternate_text, filtered_text, chunks, i,
                   full_text, buffer_text, applied_guardrails, result, stream, calls,
                   errors, limit_text_unit>>

PairMessageStart == \E k \in PairIds : Pass(k, "messageStart")

PairDelta == \E k \in PairIds : Pass(k, "contentBlockDelta")

PairMessageStop == \E k \in PairIds : Pass(k, "messageStop")

PairMetadata == \E k \in PairIds : Pass(k, "metadata")

PairReturn == \E k \in PairIds : Pass(k, "exhausted")

NextPair == PairMessageStart \/ PairDelta \/ PairMessageStop \/ PairMetadata \/ PairReturn

SpecPair == InitPair /\ [][NextPair]_vars

(***************************************************************************)
(* Properties.                                                             *)
(***************************************************************************)
\* Some call in the log is a blocked threshold-triggered evaluation.
BlockedFlushIn(log) == \E k \in DOMAIN log : log[k].why = "threshold" /\ log[k].is_blocked

\* No evaluation in the log intervened.
AllNone(log) == \A k \in DOMAIN log : log[k].response["action"] = "NONE"

\* The stream delivered its messageStop.
StreamStopped == stream.phase \in {"stopped", "metadata"}

\* The windows of the text of apply_guardrail_full_text.
Windows == wrap(text, limit_text_unit * TEXT_UNIT)

OverLimit == Len(text) > limit_text_unit * TEXT_UNIT

\* C1: the step in which a threshold-triggered evaluation is blocked makes that
\* one call only and ends the dispatcher, and after a blocked threshold
\* evaluation no delta is consumed, the buffer is not extended and no further
\* evaluation (threshold or end-of-stream) is made.
C1_StopsOnBlockedFlush ==
    [][ /\ (BlockedFlushIn(calls') /\ ~BlockedFlushIn(calls))
            => /\ pc' = "returned"
               /\ Len(calls') = Len(calls) + 1
               /\ calls'[Len(calls')].why = "threshold"
        /\ BlockedFlushIn(calls)
            => UNCHANGED <<stream, buffer_text, full_text, applied_guardrails, calls>>
      ]_vars

C1_Witness ==
    /\ pc = "returned"
    /\ BlockedFlushIn(calls)
    /\ Len(calls) >= 2
    /\ stream.phase = "content"
    /\ stream.sent < MaxStreamLen

\* C2: when the stream ended with its messageStop and no evaluation
\* intervened, the returned full_text is the concatenation of all deltas.
C2_FinalTextIsConcatenation ==
    (pc = "returned" /\ StreamStopped /\ AllNone(calls)) => full_text = Consumed

\* C3: the windows that wrap hands to the loop of apply_guardrail_full_text
\* concatenate to the text.
C3_WindowsCoverText ==
    (pc \in {"for chunk", "UnboundLocalError"} /\ i = 0) => Concat(chunks) = text

\* C4: the calls are made on the windows in text order, none follows a blocked
\* one, and a blocked k-th window ends the chunker after exactly k calls with
\* (True, that window's alternate text, that window's response).
C4_BlockedWindowStops ==
    OverLimit =>
        /\ Len(calls) = i
        /\ Len(calls) <= Len(Windows)
        /\ \A k \in DOMAIN calls : calls[k].content = Windows[k]
        /\ \A k \in DOMAIN calls : calls[k].is_blocked => k = Len(calls)
        /\ \A k \in DOMAIN calls :
              calls[k].is_blocked =>
                  /\ pc = "returned"
                  /\ result = <<TRUE, calls[k].alternate_text, calls[k].response>>

C4_Witness ==
    /\ pc = "returned"
    /\ OverLimit
    /\ Len(calls) = 2
    /\ calls[2].is_blocked
    /\ calls[1].alternate_text # <<>>
    /\ chunks # <<>>
    /\ result[2] = Refusal

\* A finding with action BLOCKED under any sub-policy of any policy of any
\* assessment.
AnyBlockingFinding(assessments) ==
    \E k \in DOMAIN assessments :
      \E policy \in DOMAIN assessments[k] :
        \E sub \in DOMAIN assessments[k][policy] :
          \E j \in DOMAIN assessments[k][policy][sub] :
            assessments[k][policy][sub][j]["action"] = "BLOCKED"

\* The replacement text of a response with at most two outputs.
ServiceText(outputs) ==
    IF Len(outputs) = 0 THEN <<>>
    ELSE IF Len(outputs) = 1 THEN outputs[1]["text"]
    ELSE outputs[1]["text"] \o <<" ">> \o outputs[2]["text"]

\* C5: apply_guardrail reports blocked exactly when the service intervened and
\* some finding is BLOCKED; an intervention without a BLOCKED finding is
\* reported unblocked, with the service's replacement text.
C5_BlockedIffBlockingFinding ==
    pc = "evaluated" =>
        /\ is_blocked = (response["action"] # "NONE"
                         /\ AnyBlockingFinding(response["assessments"]))
        /\ (response["action"] # "NONE" /\ ~AnyBlockingFinding(response["assessments"]))
              => (~is_blocked /\ alternate_text = ServiceText(response["outputs"]))

C5_Witness ==
    /\ pc = "evaluated"
    /\ response["action"] = "GUARDRAIL_INTERVENED"
    /\ Len(response["assessments"]) = 2
    /\ response["assessments"][1] = [sensitiveInformationPolicy |-> [regexes |-> <<NonBlocking>>]]
    /\ ~is_blocked
    /\ alternate_text = Masked
    /\ text # Masked

\* C6: a text within the limit is evaluated exactly once, as it is, and the
\* chunker returns that evaluation's triple.
C6_WithinLimitOneCall ==
    ~OverLimit =>
        /\ Len(calls) <= 1
        /\ pc = "returned" =>
              /\ Len(calls) = 1
              /\ calls[1].content = text
              /\ result = <<calls[1].is_blocked, calls[1].alternate_text, calls[1].response>>

C6_Witness ==
    /\ pc = "returned"
    /\ Len(text) = limit_text_unit * TEXT_UNIT
    /\ Len(calls) = 1
    /\ result[1]
    /\ result[2] = Refusal

\* C7: every evaluation that the service answers with action NONE is reported
\* unblocked with the submitted content as its text, the first time and the
\* second time.
C7_NoneReturnsContent ==
    /\ \A k \in DOMAIN calls :
          calls[k].response["action"] = "NONE"
              => (~calls[k].is_blocked /\ calls[k].alternate_text = calls[k].content)
    /\ (pc \in {"evaluated", "evaluated twice"} /\ response["action"] = "NONE")
          => (~is_blocked /\ alternate_text = text)

C7_Witness ==
    /\ pc = "evaluated twice"
    /\ text # <<>>
    /\ Len(calls) = 2
    /\ calls[1].response["action"] = "NONE"
    /\ calls[1].response["outputs"] # <<>>
    /\ calls[2].response["action"] = "NONE"
    /\ calls[1].alternate_text = text
    /\ alternate_text = text

\* C8: when no window is blocked the chunker has evaluated every window and
\* returns (False, the alternate texts of the windows in order, the last
\* window's response).
C8_UnblockedConcatenatesAlternates ==
    (pc = "returned" /\ OverLimit /\ \A k \in DOMAIN calls : ~calls[k].is_blocked) =>
        /\ Len(calls) = Len(Windows)
        /\ result[1] = FALSE
        /\ result[2] = Concat([k \in DOMAIN calls |-> calls[k].alternate_text])
        /\ result[3] = calls[Len(calls)].response

C8_Witness ==
    /\ pc = "returned"
    /\ OverLimit
    /\ Len(calls) = 3
    /\ ~result[1]
    /\ calls[1].response["action"] = "GUARDRAIL_INTERVENED"
    /\ calls[2].response["action"] = "NONE"
    /\ calls[1].alternate_text # calls[1].content
    /\ result[2] # text

\* The stream ended normally after 2*TEXT_UNIT + 1 characters and no
\* evaluation intervened.
C9_Case ==
    /\ pc = "returned"
    /\ StreamStopped
    /\ stream.sent = 2 * TEXT_UNIT + 1
    /\ AllNone(calls)

\* C9 as stated: a stream of 2*TEXT_UNIT + 1 characters without intervention
\* makes exactly 2 evaluation calls.
C9_ExactlyTwoCalls == C9_Case => Len(calls) = 2

\* C9 amended: such a stream makes 2 or 3 evaluation calls: one or two
\* threshold-triggered evaluations followed by one end-of-stream evaluation.
C9_TwoOrThreeCalls ==
    C9_Case =>
        /\ Len(calls) \in {2, 3}
        /\ calls[Len(calls)].why = "end"
        /\ \A k \in 1..(Len(calls) - 1) : calls[k].why = "threshold"

C9_Witness ==
    /\ C9_Case
    /\ Len(calls) = 2
    /\ calls[1].why = "threshold"
    /\ calls[1].content # <<>>
    /\ calls[2].why = "end"

\* C10: the end-of-stream evaluation of a non-empty buffer appends its
\* alternate text to full_text.
C10_EndFlushAppended ==
    [][ (/\ Len(calls') = Len(calls) + 1
         /\ calls'[Len(calls')].why = "end"
         /\ buffer_text # <<>>)
            => full_text' = full_text \o calls'[Len(calls')].alternate_text
      ]_vars

\* C11: the history the dispatcher returns holds the response of every
\* evaluation call it made, in call order.
C11_HistoryHoldsEveryCall ==
    pc = "returned" => applied_guardrails = [k \in DOMAIN calls |-> calls[k].response]

\* A threshold-triggered evaluation was blocked and the dispatcher returned.
C12_Case == pc = "returned" /\ BlockedFlushIn(calls)

\* C12 as stated: after a blocked threshold-triggered evaluation the returned
\* full_text is the text of the earlier evaluations followed by the blocked
\* evaluation's alternate text.
C12_BlockedTextAppended ==
    C12_Case => full_text = Concat([k \in DOMAIN calls |-> calls[k].alternate_text])

\* C12 amended: the returned full_text is the blocked evaluation's alternate
\* text alone; what the earlier evaluations accumulated is discarded.
C12_BlockedTextReplaces ==
    C12_Case => full_text = calls[Len(calls)].alternate_text

C12_Witness ==
    /\ C12_Case
    /\ Len(calls) = 3
    /\ calls[2].alternate_text # <<>>
    /\ calls[3].is_blocked
    /\ full_text = Refusal

\* C13: when an evaluation or the token stream fails with a service error in
\* the middle of a stream, the step generate takes on that error returns the
\* full_text and applied_guardrails accumulated before the failure.
C13_FailureReturnsPartialResult ==
    [][ pc = "ClientError"
          => /\ pc' = "returned"
             /\ UNCHANGED <<full_text, applied_guardrails>> ]_vars

\* A throttling error raised by the evaluation a threshold crossing triggers.
ThrottledFlush(e) == e.why = "threshold" /\ e.error = "ThrottlingException"

\* C14 (as stated): a single throttling error during a flush does not end the
\* stream: the dispatcher is still running, about to evaluate the same buffer
\* again.
C14_ThrottlingIsRetried ==
    (Len(errors) = 1 /\ ThrottledFlush(errors[1])) => pc = "stream_conversation"

\* C14 (amended): a throttling error during a flush is not retried: it is the
\* only attempt for that buffer, it ends stream_conversation at once, and no
\* evaluation is made and no delta consumed after it.
C14_ThrottlingEndsStream ==
    /\ [](\A k \in DOMAIN errors :
            ThrottledFlush(errors[k])
              => /\ Len(errors) = 1
                 /\ pc \in {"ClientError", "UnboundLocalError"}
                 /\ Len(calls) = errors[k].at
                 /\ buffer_text = errors[k].content)
    /\ [][ (errors # <<>> /\ ThrottledFlush(errors[1]))
             => UNCHANGED <<stream, calls, errors, buffer_text>> ]_vars

C14_Witness ==
    /\ pc = "UnboundLocalError"
    /\ Len(errors) = 1
    /\ ThrottledFlush(errors[1])
    /\ Len(errors[1].content) = TEXT_UNIT
    /\ Len(calls) = 1
    /\ ~calls[1].is_blocked

\* C15: no request over the per-call cap reaches the service: every content
\* apply_guardrail has submitted is at most limit_text_unit * TEXT_UNIT
\* characters long, longer content being refused before the call.
C15_NoCallOverQuota ==
    \A k \in DOMAIN calls : Len(calls[k].content) <= limit_text_unit * TEXT_UNIT

\* C16: a contentBlockDelta without the expected text is skipped: the step that
\* meets it leaves buffer, final text and history as they were, and the
\* dispatcher goes on consuming events.
C16_MalformedEventSkipped ==
    [][ (Len(errors') > Len(errors) /\ errors'[Len(errors')].why = "event")
          => /\ pc' = "stream_conversation"
             /\ UNCHANGED <<buffer_text, full_text, applied_guardrails>> ]_vars

\* The least number of units of the given size that hold n characters.
Ceiling(n, size) == (n + size - 1) \div size

\* C18: the number of text units computed for a non-empty text of length L is
\* ceil(L / TEXT_UNIT), so a text of exactly TEXT_UNIT characters is 1 unit.
C18_UnitsAreCeiling ==
    \A k \in DOMAIN calls :
        calls[k].content # <<>>
          => calls[k].text_units = Ceiling(Len(calls[k].content), TEXT_UNIT)

\* The scenario text of two and a half text units: "a"*2500 for units of 1000.
ScenarioText == [k \in 1..(2 * TEXT_UNIT + TEXT_UNIT \div 2) |-> "a"]

\* apply_guardrail_full_text has returned for the scenario text under the
\* notebook's quota, no evaluation having found a violation.
C17_Case ==
    /\ pc = "returned"
    /\ limit_text_unit = NOTEBOOK_LIMIT_TEXT_UNIT
    /\ text = ScenarioText
    /\ AllNone(calls)

\* C17 (as stated): the scenario text is evaluated in three calls, on windows
\* of one unit, one unit and half a unit in that order, and the result is
\* unblocked with a filtered text as long as the input.
C17_ThreeWindows ==
    C17_Case
      => /\ Len(calls) = 3
         /\ Len(calls[1].content) = TEXT_UNIT
         /\ Len(calls[2].content) = TEXT_UNIT
         /\ Len(calls[3].content) = TEXT_UNIT \div 2
         /\ ~result[1]
         /\ Len(result[2]) = Len(text)

\* C17 (amended): under the notebook's quota of 25 units the scenario text is
\* within the limit, so it is evaluated in one call on the whole text, and the
\* result is unblocked with the text itself as filtered text.
C17_OneCallOnWholeText ==
    C17_Case
      => /\ Len(calls) = 1
         /\ calls[1].content = text
         /\ ~result[1]
         /\ result[2] = text

C17_Witness ==
    /\ C17_Case
    /\ Len(text) > 2 * TEXT_UNIT
    /\ Len(calls) = 1
    /\ Len(calls[1].content) = Len(text)

\* C19: a step that makes a threshold evaluation submits the buffer as it stood
\* before the delta of that step, which are the characters of the stream just
\* before the delta; appending the delta would have made the buffer longer
\* than TEXT_UNIT; and when the evaluation is not blocked the buffer after
\* the step is exactly that delta.
C19_FlushEvaluatesBufferBeforeDelta ==
    [][ (Len(calls') > Len(calls) /\ calls'[Len(calls) + 1].why = "threshold")
          => LET delta == SubSeq(Alphabet, stream.sent + 1, stream'.sent)
                 call == calls'[Len(calls) + 1]
             IN /\ call.content = buffer_text
                /\ call.content
                     = SubSeq(Alphabet, stream.sent - Len(buffer_text) + 1, stream.sent)
                /\ Len(buffer_text) + Len(delta) > TEXT_UNIT
                /\ ~call.is_blocked => buffer_text' = delta ]_vars

C19_Witness ==
    /\ pc = "stream_conversation"
    /\ Len(calls) = 1
    /\ calls[1].why = "threshold"
    /\ ~calls[1].is_blocked
    /\ Len(calls[1].content) = TEXT_UNIT
    /\ stream.sent = TEXT_UNIT + Len(buffer_text)
    /\ stream.events = 2
    /\ buffer_text # <<>>

\* C20: whatever the sizes of the deltas, the buffer holds at most TEXT_UNIT
\* characters once a delta is processed, and every buffer submitted for
\* evaluation has at most TEXT_UNIT characters.
C20_BufferWithinUnit ==
    /\ Len(buffer_text) <= TEXT_UNIT
    /\ \A k \in DOMAIN calls : Len(calls[k].content) <= TEXT_UNIT

\* C21: evaluations are made only when a delta would take the buffer over
\* TEXT_UNIT and at most once at the end of the stream, as the last call, and
\* at the end only on a non-empty residual buffer.
C21_EvaluationMoments ==
    \A k \in DOMAIN calls :
        /\ calls[k].why \in {"threshold", "end"}
        /\ calls[k].why = "end" => (k = Len(calls) /\ calls[k].content # <<>>)

\* The step made a threshold-triggered evaluation in which the service
\* intervened without any BLOCKED finding.
C22_Case ==
    /\ Len(calls') > Len(calls)
    /\ calls'[Len(calls) + 1].why = "threshold"
    /\ calls'[Len(calls) + 1].response["action"] # "NONE"
    /\ ~AnyBlockingFinding(calls'[Len(calls) + 1].response["assessments"])

\* C22: a non-blocking intervention in a threshold-triggered flush leaves the
\* dispatcher running, with the service's replacement text (not the buffer)
\* appended to full_text, the response recorded and the triggering delta as
\* the new buffer.
C22_RemediationContinues ==
    [][ C22_Case
          => /\ pc' = "stream_conversation"
             /\ Len(calls') = Len(calls) + 1
             /\ full_text'
                  = full_text \o ServiceText(calls'[Len(calls')].response["outputs"])
             /\ applied_guardrails' = Append(applied_guardrails, calls'[Len(calls')].response)
             /\ buffer_text' = SubSeq(Alphabet, stream.sent + 1, stream'.sent) ]_vars

\* After a remediated flush of a full unit the dispatcher consumed further
\* deltas and made a second threshold evaluation.
C22_Witness ==
    /\ pc = "stream_conversation"
    /\ Len(calls) = 2
    /\ calls[1].why = "threshold"
    /\ calls[1].response = RespMasked(calls[1].content)
    /\ Len(calls[1].content) = TEXT_UNIT
    /\ calls[2].why = "threshold"
    /\ calls[2].response["action"] = "NONE"
    /\ full_text = Masked \o calls[1].content \o calls[2].content
    /\ stream.sent > 2 * TEXT_UNIT

\* The locals a call of stream_conversation running alone on the stream of
\* call k can have after one more loop pass from the locals l.
AloneSuccessors(k, l) == {Dispatch(l, event) : event \in Events(k, l)}

\* The characters a text of call k can hold: those of its own stream and the
\* service's mask and refusal marks.
OwnChars(k) == {Letters(k)[j] : j \in DOMAIN Letters(k)} \cup {Masked[1], Refusal[1]}

OnlyOwnChars(k, t) == \A j \in DOMAIN t : t[j] \in OwnChars(k)

\* C23: of two interleaved calls every step is a step of one call k: it leaves
\* the other call's buffer, final text and history as they were and takes
\* call k's locals to locals that the call alone, on the same event and the
\* same evaluation result, reaches from them; and no text of a call ever
\* holds a character of the other call's stream.
C23_InstancesShareNothing ==
    /\ [][ \E k \in PairIds :
             /\ \A j \in PairIds \ {k} : instances'[j] = instances[j]
             /\ instances'[k] \in AloneSuccessors(k, instances[k]) ]_vars
    /\ [](\A k \in PairIds :
            /\ OnlyOwnChars(k, instances[k].buffer_text)
            /\ OnlyOwnChars(k, instances[k].full_text)
            /\ \A c \in DOMAIN instances[k].calls :
                 OnlyOwnChars(k, instances[k].calls[c].content))

\* Both calls returned after interleaved threshold evaluations, the second
\* call's flush having happened while the first call's buffer was filled.
C23_Witness ==
    /\ instances[1].pc = "returned"
    /\ instances[2].pc = "returned"
    /\ instances[1].stream.sent = MaxPairLen
    /\ instances[2].stream.sent = MaxPairLen
    /\ Len(instances[1].calls) = 2
    /\ Len(instances[2].calls) = 2
    /\ instances[1].full_text = SubSeq(Alphabet, 1, TEXT_UNIT)
    /\ instances[2].full_text = Masked \o SubSeq(Capitals, 1, TEXT_UNIT)

\* C24: every window apply_guardrail_full_text has ready for evaluation and
\* every content it has submitted, directly or as a window, has at most
\* limit_text_unit * TEXT_UNIT characters, whatever the text.
C24_ChunksWithinQuota ==
    /\ \A k \in DOMAIN chunks : Len(chunks[k]) <= limit_text_unit * TEXT_UNIT
    /\ \A k \in DOMAIN calls :
         /\ calls[k].why \in {"direct", "chunk"}
         /\ Len(calls[k].content) <= limit_text_unit * TEXT_UNIT

\* A single word of more than two windows was evaluated in three calls, the
\* first two on full windows.
C24_Witness ==
    /\ pc = "returned"
    /\ OverLimit
    /\ \A k \in DOMAIN text : text[k] = "a"
    /\ Len(text) > 2 * limit_text_unit * TEXT_UNIT
    /\ Len(calls) = 3
    /\ Len(calls[1].content) = limit_text_unit * TEXT_UNIT
    /\ Len(calls[2].content) = limit_text_unit * TEXT_UNIT

\* C25: while the dispatcher is in its loop and no evaluation has intervened,
\* full_text followed by buffer_text is the concatenation of the deltas
\* consumed so far.
C25_NothingLostBetweenDeltas ==
    (pc = "stream_conversation" /\ AllNone(calls))
        => full_text \o buffer_text = Consumed

\* Two threshold evaluations without intervention, and a buffer that two
\* deltas filled since the last of them.
C25_Witness ==
    /\ pc = "stream_conversation"
    /\ stream.phase = "content"
    /\ AllNone(calls)
    /\ Len(calls) = 2
    /\ Len(full_text) = 2 * TEXT_UNIT
    /\ Len(buffer_text) = 2
    /\ stream.events >= 5

\* No evaluation in the log was blocked.
NeverBlocked(log) == \A k \in DOMAIN log : ~log[k].is_blocked

\* C26: once a stream that was never blocked has delivered its messageStop,
\* the contents of the evaluation calls, concatenated in call order, are the
\* concatenation of all deltas.
C26_EveryCharacterEvaluatedOnce ==
    (StreamStopped /\ NeverBlocked(calls))
        => Concat([k \in DOMAIN calls |-> calls[k].content]) = Consumed

\* A stream of more than two units returned after two threshold evaluations,
\* one of them remediated, and the end-of-stream evaluation of the rest.
C26_Witness ==
    /\ pc = "returned"
    /\ StreamStopped
    /\ NeverBlocked(calls)
    /\ Len(calls) = 3
    /\ calls[2].response["action"] = "GUARDRAIL_INTERVENED"
    /\ calls[3].why = "end"
    /\ calls[3].content # <<>>
    /\ stream.sent > 2 * TEXT_UNIT

\* C27: on a text over the limit apply_guardrail_full_text never ends without
\* windows: it does not fail on its return, and when it has returned it has
\* made at least one evaluation call and returns that call's response.
C27_OverLimitTextReturns ==
    OverLimit
      => /\ pc # "UnboundLocalError"
         /\ pc = "returned" => (calls # <<>> /\ result[3] = calls[Len(calls)].response)

\* C28: a threshold-triggered evaluation is never made on an empty buffer.
C28_ThresholdBufferNonEmpty ==
    \A k \in DOMAIN calls : calls[k].why = "threshold" => calls[k].content # <<>>

====
